---- MODULE Spec2Model ----
(***************************************************************************)
(* dns.set.Set: a set kept as a list `items` (order, positions) and a dict *)
(* `map` (value -> position).  Objects, lists and dicts are heap cells     *)
(* reached through references, as in Python, so that copies and aliases    *)
(* are distinguishable.  Positions are 0-based as in the source; TLA+      *)
(* sequences are 1-based, so position i of a list s is s[i + 1].           *)
(***************************************************************************)
EXTENDS Integers, Sequences, FiniteSets, TLC

\* Bounds of the model.
NVal == 3          \* the element values are 1..NVal
MaxIter == 2       \* longest plain iterable handed to Set(...) and update(...)
MaxSlice == 1      \* slice start/stop are None or in -MaxSlice..MaxSlice
MaxLog == 4        \* longest recorded history of add and remove calls

Values == 1 .. NVal
MaxIdx == NVal + 1
Indices == (0 - MaxIdx) .. MaxIdx

\* The names the caller binds Set objects to, and the name of the object a
\* copy-producing method builds before it returns it.
Objs == {"A", "B"}
Tmp == "T"
Cells == Objs \cup {Tmp}

Classes == {"Set", "SubSet"}

\* Python's None for an optional integer: None is <<>>, the integer n is <<n>>.
None == << >>
Some(n) == << n >>

VARIABLES
    st,     \* the heap: obj (name -> object), lists, dicts; exc the pending exception
    pc,     \* "ready": the caller is about to call; "returned": a call has just ended
    call,   \* the call that has just ended
    pre,    \* the heap as it was when that call began
    ret,    \* what that call returned
    log     \* history: the add and remove calls made on A so far, when recorded

vars == << st, pc, call, pre, ret, log >>

----------------------------------------------------------------------------
\* Heap access.

Items(h, o) == h.lists[h.obj[o].items]
Map(h, o) == h.dicts[h.obj[o].map]
SetItems(h, o, s) == [h EXCEPT !.lists[h.obj[o].items] = s]
SetMap(h, o, m) == [h EXCEPT !.dicts[h.obj[o].map] = m]
Raise(h, e) == [h EXCEPT !.exc = e]

\* What a caller can observe of the object bound to o.
View(h, o) == [cls |-> h.obj[o].cls, items |-> Items(h, o), map |-> Map(h, o)]

EmptyDict == [k \in {} |-> 0]

RangeOf(s) == {s[j] : j \in 1 .. Len(s)}

\* del s[i] for a position i of s.
DelAt(s, i) == [j \in 1 .. (Len(s) - 1) |-> IF j <= i THEN s[j] ELSE s[j + 1]]

----------------------------------------------------------------------------
\* Allocation.  A cell no object refers to is garbage and is kept empty.  A new
\* list or dict made for the object bound to o takes a cell that no other
\* object refers to.

FreeList(h, o) ==
    CHOOSE a \in Cells : \A q \in Cells \ {o} : h.obj[q].items # a

FreeDict(h, o) ==
    CHOOSE a \in Cells : \A q \in Cells \ {o} : h.obj[q].map # a

Collect(h) ==
    [h EXCEPT
        !.lists = [a \in Cells |->
            IF \E q \in Cells : h.obj[q].items = a THEN h.lists[a] ELSE << >>],
        !.dicts = [a \in Cells |->
            IF \E q \in Cells : h.obj[q].map = a THEN h.dicts[a] ELSE EmptyDict]]

\* self.items = s, a list that did not exist before.
NewItems(h, o, s) ==
    LET a == FreeList(h, o)
    IN  Collect([h EXCEPT !.obj[o].items = a, !.lists[a] = s])

\* self.map = m, a dict that did not exist before.
NewMap(h, o, m) ==
    LET a == FreeDict(h, o)
    IN  Collect([h EXCEPT !.obj[o].map = a, !.dicts[a] = m])

----------------------------------------------------------------------------
\* add without the membership test of line 45.
add_always(h, self, item) ==
    IF h.exc # "none" THEN h
    ELSE LET h1 == SetMap(h, self,
                     [k \in DOMAIN Map(h, self) \cup {item} |->
                         IF k = item THEN Len(Items(h, self)) ELSE Map(h, self)[k]])
         IN  SetItems(h1, self, Append(Items(h1, self), item))

\* Set.add (lines 42-47).
add(h, self, item) ==
    IF h.exc # "none" THEN h
    ELSE IF item \notin DOMAIN Map(h, self)
    THEN LET h1 == SetMap(h, self, Map(h, self) @@ (item :> Len(Items(h, self))))
         IN  SetItems(h1, self, Append(Items(h1, self), item))
    ELSE h

\* Set.__contains__ (lines 49-50).
contains(h, self, item) == item \in DOMAIN Map(h, self)

\* remove without the loop of lines 59-61: the positions after i go stale.
remove_stale(h, self, item) ==
    IF h.exc # "none" THEN h
    ELSE IF item \in DOMAIN Map(h, self)
    THEN LET i == Map(h, self)[item]
         IN  IF i >= Len(Items(h, self)) THEN Raise(h, "IndexError")
             ELSE LET h1 == SetItems(h, self, DelAt(Items(h, self), i))
                  IN  SetMap(h1, self, [k \in DOMAIN Map(h1, self) \ {item} |-> Map(h1, self)[k]])
    ELSE h

\* remove that fills the hole with the last item instead of shifting.
remove_swap(h, self, item) ==
    IF h.exc # "none" THEN h
    ELSE IF item \in DOMAIN Map(h, self)
    THEN LET i == Map(h, self)[item]
             s == Items(h, self)
             m == Map(h, self)
             last == s[Len(s)]
         IN  IF i >= Len(s) THEN Raise(h, "IndexError")
             ELSE SetMap(
                    SetItems(h, self, [j \in 1 .. (Len(s) - 1) |-> IF j = i + 1 THEN last ELSE s[j]]),
                    self, [k \in DOMAIN m \ {item} |-> IF k = last THEN i ELSE m[k]])
    ELSE h

\* remove that raises on an absent item, as the built-in set.remove does.
remove_strict(h, self, item) ==
    IF h.exc # "none" THEN h
    ELSE IF item \in DOMAIN Map(h, self)
    THEN LET i == Map(h, self)[item]
         IN  IF i >= Len(Items(h, self)) THEN Raise(h, "IndexError")
             ELSE LET h1 == SetItems(h, self, DelAt(Items(h, self), i))
                      m1 == [k \in DOMAIN Map(h1, self) \ {item} |-> Map(h1, self)[k]]
                      m2 == [k \in DOMAIN m1 |-> IF m1[k] >= i THEN m1[k] - 1 ELSE m1[k]]
                  IN  SetMap(h1, self, m2)
    ELSE Raise(h, "KeyError")

\* Set.remove (lines 52-61).
remove(h, self, item) ==
    IF h.exc # "none" THEN h
    ELSE IF item \in DOMAIN Map(h, self)
    THEN LET i == Map(h, self)[item]
         IN  IF i >= Len(Items(h, self)) THEN Raise(h, "IndexError")
             ELSE LET h1 == SetItems(h, self, DelAt(Items(h, self), i))
                      m1 == [k \in DOMAIN Map(h1, self) \ {item} |-> Map(h1, self)[k]]
                      m2 == [k \in DOMAIN m1 |-> IF m1[k] >= i THEN m1[k] - 1 ELSE m1[k]]
                  IN  SetMap(h1, self, m2)
    ELSE h

\* Set.discard (lines 63-66).
discard(h, self, item) == remove(h, self, item)

\* Set.clear (lines 209-212).
clear(h, self) ==
    IF h.exc # "none" THEN h
    ELSE NewMap(NewItems(h, self, << >>), self, EmptyDict)

----------------------------------------------------------------------------
\* Arguments.  An argument is a reference to a Set object (by the name it is
\* bound to) or a plain list, which is iterable but no Set instance.

Ref(o) == [kind |-> "Set", ref |-> o, val |-> << >>]
Lst(s) == [kind |-> "list", ref |-> "-", val |-> s]

\* isinstance(other, Set) (lines 103, 115, 130, 251, 264).
isinstance_Set(other) == other.kind = "Set"

\* `self is other`, for self the object bound to the name self.
is_(self, other) == other.kind = "Set" /\ other.ref = self

----------------------------------------------------------------------------
\* _clone that hands the copy the list of the original instead of a copy of it.
_clone_shared(h, self) ==
    IF h.exc # "none" THEN h
    ELSE LET h0 == [h EXCEPT !.obj[Tmp] =
                        [cls |-> h.obj[self].cls, items |-> h.obj[self].items, map |-> Tmp]]
         IN  NewMap(Collect(h0), Tmp, Map(h, self))

\* _clone that makes the new object with Set.__new__(Set), not with the class
\* of self (lines 80-81).
_clone_base(h, self) ==
    IF h.exc # "none" THEN h
    ELSE LET h0 == [h EXCEPT !.obj[Tmp] = [cls |-> "Set", items |-> Tmp, map |-> Tmp]]
             h1 == NewItems(h0, Tmp, Items(h, self))
         IN  NewMap(h1, Tmp, Map(h, self))

\* Set._clone (lines 68-84): the new object is bound to Tmp.
_clone(h, self) ==
    IF h.exc # "none" THEN h
    ELSE LET h0 == [h EXCEPT !.obj[Tmp] = [cls |-> h.obj[self].cls, items |-> Tmp, map |-> Tmp]]
             h1 == NewItems(h0, Tmp, Items(h, self))
         IN  NewMap(h1, Tmp, Map(h, self))

\* Set.__copy__ (lines 86-90) and Set.copy (lines 92-96).
copy(h, self) == _clone(h, self)

\* `for item in it: self.add(item)` for a plain list it (lines 36-37, 206-207).
RECURSIVE add_each(_, _, _, _)
add_each(h, self, it, k) ==
    IF h.exc # "none" \/ k >= Len(it) THEN h
    ELSE add_each(add(h, self, it[k + 1]), self, it, k + 1)

\* `for item in other: self.add(item)` for a Set other (lines 107-108, 206-207):
\* iter(other.items) walks the list cell src as it is at each step.
RECURSIVE add_from(_, _, _, _)
add_from(h, self, src, k) ==
    IF h.exc # "none" \/ k >= Len(h.lists[src]) THEN h
    ELSE add_from(add(h, self, h.lists[src][k + 1]), self, src, k + 1)

\* Set.update (lines 198-207).
update(h, self, other) ==
    IF other.kind = "Set" THEN add_from(h, self, h.obj[other.ref].items, 0)
    ELSE add_each(h, self, other.val, 0)

\* union_update without the isinstance check of lines 103-104.
union_update_unchecked(h, self, other) ==
    IF h.exc # "none" THEN h
    ELSE IF is_(self, other) THEN h
    ELSE update(h, self, other)

\* Set.union_update (lines 98-108).
union_update(h, self, other) ==
    IF h.exc # "none" THEN h
    ELSE IF ~isinstance_Set(other) THEN Raise(h, "ValueError")
    ELSE IF is_(self, other) THEN h
    ELSE add_from(h, self, h.obj[other.ref].items, 0)

\* The loop of lines 121-123 over snap, the copy list(self.items).
RECURSIVE keep_common(_, _, _, _, _)
keep_common(h, self, other, snap, k) ==
    IF h.exc # "none" \/ k >= Len(snap) THEN h
    ELSE LET item == snap[k + 1]
             h1 == IF ~contains(h, other, item) THEN remove(h, self, item) ELSE h
         IN  keep_common(h1, self, other, snap, k + 1)

\* The loop of lines 121-123 run over self.items itself, not over a copy.
RECURSIVE keep_common_live(_, _, _, _)
keep_common_live(h, self, other, k) ==
    IF h.exc # "none" \/ k >= Len(Items(h, self)) THEN h
    ELSE LET item == Items(h, self)[k + 1]
             h1 == IF ~contains(h, other, item) THEN remove(h, self, item) ELSE h
         IN  keep_common_live(h1, self, other, k + 1)

\* intersection_update without the copy of line 121.
intersection_update_live(h, self, other) ==
    IF h.exc # "none" THEN h
    ELSE IF ~isinstance_Set(other) THEN Raise(h, "ValueError")
    ELSE IF is_(self, other) THEN h
    ELSE keep_common_live(h, self, other.ref, 0)

\* intersection_update that rebuilds self from the items of other found in
\* self, scanning other where lines 121-123 scan self.
intersection_update_by_other(h, self, other) ==
    IF h.exc # "none" THEN h
    ELSE IF ~isinstance_Set(other) THEN Raise(h, "ValueError")
    ELSE IF is_(self, other) THEN h
    ELSE LET mine == RangeOf(Items(h, self))
             both(x) == x \in mine
         IN  add_each(clear(h, self), self, SelectSeq(Items(h, other.ref), both), 0)

\* Set.intersection_update (lines 110-123).
intersection_update(h, self, other) ==
    IF h.exc # "none" THEN h
    ELSE IF ~isinstance_Set(other) THEN Raise(h, "ValueError")
    ELSE IF is_(self, other) THEN h
    ELSE keep_common(h, self, other.ref, Items(h, self), 0)

\* `for item in other: self.discard(item)` (lines 135-136).
RECURSIVE discard_from(_, _, _, _)
discard_from(h, self, src, k) ==
    IF h.exc # "none" \/ k >= Len(h.lists[src]) THEN h
    ELSE discard_from(discard(h, self, h.lists[src][k + 1]), self, src, k + 1)

\* difference_update without the `self is other` case of lines 132-133.
difference_update_unguarded(h, self, other) ==
    IF h.exc # "none" THEN h
    ELSE IF ~isinstance_Set(other) THEN Raise(h, "ValueError")
    ELSE discard_from(h, self, h.obj[other.ref].items, 0)

\* difference_update that returns at once when self is other, as its siblings do.
difference_update_selfnoop(h, self, other) ==
    IF h.exc # "none" THEN h
    ELSE IF ~isinstance_Set(other) THEN Raise(h, "ValueError")
    ELSE IF is_(self, other) THEN h
    ELSE discard_from(h, self, h.obj[other.ref].items, 0)

\* Set.difference_update (lines 125-136).
difference_update(h, self, other) ==
    IF h.exc # "none" THEN h
    ELSE IF ~isinstance_Set(other) THEN Raise(h, "ValueError")
    ELSE IF is_(self, other) THEN clear(h, self)
    ELSE discard_from(h, self, h.obj[other.ref].items, 0)

\* union that updates self and returns it, without the copy of line 144.
union_noclone(h, self, other) ==
    LET h1 == union_update(h, self, other)
    IN  IF h1.exc # "none" THEN h1 ELSE [h1 EXCEPT !.obj[Tmp] = h1.obj[self]]

\* Set.union (lines 138-146): the result is the object bound to Tmp.
union(h, self, other) == union_update(_clone(h, self), Tmp, other)

\* Set.intersection (lines 148-157).
intersection(h, self, other) == intersection_update(_clone(h, self), Tmp, other)

\* Set.difference (lines 159-168).
difference(h, self, other) == difference_update(_clone(h, self), Tmp, other)

----------------------------------------------------------------------------
\* Binding the object a call built (bound to Tmp) to the caller's name d, as
\* in `d = a.union(b)`.  The object d named before is released.  When the
\* call raised, nothing is bound and the object it was building is dropped.

IdleTmp == [cls |-> "Set", items |-> Tmp, map |-> Tmp]

Bind(h, d) ==
    IF h.exc # "none"
    THEN Collect([h EXCEPT !.obj[Tmp] = IdleTmp,
                           !.lists[Tmp] = << >>, !.dicts[Tmp] = EmptyDict])
    ELSE LET t == h.obj[Tmp]
             la == IF t.items = Tmp
                   THEN CHOOSE a \in Objs : \A q \in Objs \ {d} : h.obj[q].items # a
                   ELSE t.items
             da == IF t.map = Tmp
                   THEN CHOOSE a \in Objs : \A q \in Objs \ {d} : h.obj[q].map # a
                   ELSE t.map
         IN  Collect([h EXCEPT
                 !.obj[d] = [cls |-> t.cls, items |-> la, map |-> da],
                 !.obj[Tmp] = IdleTmp,
                 !.lists[Tmp] = << >>,
                 !.dicts[Tmp] = EmptyDict,
                 !.lists[la] = h.lists[t.items],
                 !.dicts[da] = h.dicts[t.map]])

NoneArg == [kind |-> "None", ref |-> "-", val |-> << >>]

\* __init__ that takes the input as the item list in one step and maps each
\* value to its last position, where lines 35-37 add the values one by one.
__init__bulk(h, cls, items) ==
    LET h0 == [h EXCEPT !.obj[Tmp] = [cls |-> cls, items |-> Tmp, map |-> Tmp]]
        h1 == NewMap(NewItems(h0, Tmp, << >>), Tmp, EmptyDict)
        s == IF items.kind = "Set" THEN h1.lists[h1.obj[items.ref].items] ELSE items.val
        last(x) == CHOOSE i \in 1 .. Len(s) :
                       s[i] = x /\ \A j \in (i + 1) .. Len(s) : s[j] # x
    IN  IF items.kind = "None" THEN h1
        ELSE SetMap(SetItems(h1, Tmp, s), Tmp, [x \in RangeOf(s) |-> last(x) - 1])

\* Set.__init__ (lines 28-37) on a new object of class cls, bound to Tmp.
__init__(h, cls, items) ==
    LET h0 == [h EXCEPT !.obj[Tmp] = [cls |-> cls, items |-> Tmp, map |-> Tmp]]
        h1 == NewMap(NewItems(h0, Tmp, << >>), Tmp, EmptyDict)
    IN  IF items.kind = "None" THEN h1
        ELSE IF items.kind = "Set" THEN add_from(h1, Tmp, h1.obj[items.ref].items, 0)
        ELSE add_each(h1, Tmp, items.val, 0)

----------------------------------------------------------------------------
\* Set.__len__ (lines 228-229).
__len__(h, self) == Len(Items(h, self))

\* __eq__ that compares the two item lists.
__eq__ordered(h, self, other) == Items(h, self) = Items(h, other.ref)

\* Set.__eq__ (lines 214-223), other a Set.
__eq__(h, self, other) ==
    IF __len__(h, self) # __len__(h, other.ref) THEN FALSE
    ELSE IF \E k \in 1 .. Len(Items(h, self)) :
                ~contains(h, other.ref, Items(h, self)[k]) THEN FALSE
    ELSE IF \E k \in 1 .. Len(Items(h, other.ref)) :
                ~contains(h, self, Items(h, other.ref)[k]) THEN FALSE
    ELSE TRUE

\* Set.__ne__ (lines 225-226).
__ne__(h, self, other) == ~__eq__(h, self, other)

\* Set.issubset (lines 245-256): the exception, and the value when there is none.
issubset(h, self, other) ==
    IF ~isinstance_Set(other) THEN [exc |-> "ValueError", b |-> FALSE]
    ELSE [exc |-> "none",
          b |-> ~\E k \in 1 .. Len(Items(h, self)) :
                    ~contains(h, other.ref, Items(h, self)[k])]

\* issuperset with the loop of issubset (line 254) in place of lines 267-269.
issuperset_pasted(h, self, other) ==
    IF ~isinstance_Set(other) THEN [exc |-> "ValueError", b |-> FALSE]
    ELSE [exc |-> "none",
          b |-> ~\E k \in 1 .. Len(Items(h, self)) :
                    ~contains(h, other.ref, Items(h, self)[k])]

\* Set.issuperset (lines 258-269).
issuperset(h, self, other) ==
    IF ~isinstance_Set(other) THEN [exc |-> "ValueError", b |-> FALSE]
    ELSE [exc |-> "none",
          b |-> ~\E k \in 1 .. Len(Items(h, other.ref)) :
                    ~contains(h, self, Items(h, other.ref)[k])]

----------------------------------------------------------------------------
\* Subscripts: an int or a slice with optional start, stop and step.

NoSlice == [start |-> None, stop |-> None, step |-> None]
IntKey(i) == [isint |-> TRUE, i |-> i, sl |-> NoSlice]
SliceKey(sl) == [isint |-> FALSE, i |-> 0, sl |-> sl]

Min(a, b) == IF a < b THEN a ELSE b
Max(a, b) == IF a > b THEN a ELSE b

\* The int subscripts a list of length n accepts.
InRange(n, i) == (0 - n) <= i /\ i < n

\* The position the int subscript i names in a list of length n.
Position(n, i) == IF i >= 0 THEN i ELSE n + i

\* range(start, stop, step), step # 0.
RECURSIVE RangeSeq(_, _, _)
RangeSeq(start, stop, step) ==
    IF (step > 0 /\ start >= stop) \/ (step < 0 /\ start <= stop) THEN << >>
    ELSE << start >> \o RangeSeq(start + step, stop, step)

\* The positions a slice with step # 0 selects in a list of length n, in the
\* order the slice yields them (slice.indices(n)).
SlicePositions(sl, n) ==
    LET step == IF sl.step = None THEN 1 ELSE sl.step[1]
        lower == IF step < 0 THEN 0 - 1 ELSE 0
        upper == IF step < 0 THEN n - 1 ELSE n
        clamp(v) == IF v < 0 THEN Max(v + n, lower) ELSE Min(v, upper)
        start == IF sl.start = None THEN (IF step < 0 THEN upper ELSE lower)
                 ELSE clamp(sl.start[1])
        stop == IF sl.stop = None THEN (IF step < 0 THEN lower ELSE upper)
                ELSE clamp(sl.stop[1])
    IN  RangeSeq(start, stop, step)

\* __getitem__ that rejects every int below 0.
__getitem__nonneg(h, self, key) ==
    LET s == Items(h, self)
    IN  IF key.isint
        THEN IF 0 <= key.i /\ key.i < Len(s)
             THEN [exc |-> "none", item |-> s[key.i + 1], list |-> << >>]
             ELSE [exc |-> "IndexError", item |-> 0, list |-> << >>]
        ELSE IF key.sl.step = Some(0)
             THEN [exc |-> "ValueError", item |-> 0, list |-> << >>]
             ELSE LET pos == SlicePositions(key.sl, Len(s))
                  IN  [exc |-> "none", item |-> 0,
                       list |-> [j \in 1 .. Len(pos) |-> s[pos[j] + 1]]]

\* Set.__getitem__ (lines 234-235): self.items[i].
__getitem__(h, self, key) ==
    LET s == Items(h, self)
    IN  IF key.isint
        THEN IF InRange(Len(s), key.i)
             THEN [exc |-> "none", item |-> s[Position(Len(s), key.i) + 1], list |-> << >>]
             ELSE [exc |-> "IndexError", item |-> 0, list |-> << >>]
        ELSE IF key.sl.step = Some(0)
             THEN [exc |-> "ValueError", item |-> 0, list |-> << >>]
             ELSE LET pos == SlicePositions(key.sl, Len(s))
                  IN  [exc |-> "none", item |-> 0,
                       list |-> [j \in 1 .. Len(pos) |-> s[pos[j] + 1]]]

\* `for item in items: self.remove(item)` (lines 242-243).
RECURSIVE remove_each(_, _, _, _)
remove_each(h, self, items, k) ==
    IF h.exc # "none" \/ k >= Len(items) THEN h
    ELSE remove_each(remove(h, self, items[k + 1]), self, items, k + 1)

\* The loop of lines 242-243 deleting by the positions the subscript named,
\* each looked up in the list as it is when its turn comes.
RECURSIVE remove_at_each(_, _, _, _)
remove_at_each(h, self, pos, k) ==
    IF h.exc # "none" \/ k >= Len(pos) THEN h
    ELSE IF pos[k + 1] >= Len(Items(h, self)) THEN Raise(h, "IndexError")
    ELSE remove_at_each(remove(h, self, Items(h, self)[pos[k + 1] + 1]), self, pos, k + 1)

\* __delitem__ that keeps the positions of a slice, not the items at them.
__delitem__stale(h, self, key) ==
    LET got == __getitem__(h, self, key)
    IN  IF got.exc # "none" THEN Raise(h, got.exc)
        ELSE IF key.isint THEN remove_each(h, self, << got.item >>, 0)
        ELSE remove_at_each(h, self, SlicePositions(key.sl, Len(Items(h, self))), 0)

\* Set.__delitem__ (lines 237-243).
__delitem__(h, self, key) ==
    LET got == __getitem__(h, self, key)
    IN  IF got.exc # "none" THEN Raise(h, got.exc)
        ELSE remove_each(h, self, IF key.isint THEN << got.item >> ELSE got.list, 0)

----------------------------------------------------------------------------
\* The inputs the caller draws.

Iterables == UNION {[1 .. n -> Values] : n \in 0 .. MaxIter}
SetArgs == {Ref(o) : o \in Objs}
ListArgs == {Lst(s) : s \in Iterables}
NonSetArgs == {Lst(<< 1 >>)}
SliceOpts == {None} \cup {Some(n) : n \in (0 - MaxSlice) .. MaxSlice}
StepOpts == {None, Some(0 - 2), Some(0 - 1), Some(0), Some(2)}
Slices == [start : SliceOpts, stop : SliceOpts, step : StepOpts]

----------------------------------------------------------------------------
\* What the caller sees of a call.

NoKey == IntKey(0)
NoCall == [op |-> "-", self |-> "-", other |-> NoneArg, dest |-> "-", item |-> 0, key |-> NoKey]
Called(op, self, other, dest, item, key) ==
    [op |-> op, self |-> self, other |-> other, dest |-> dest, item |-> item, key |-> key]

NoRet == [kind |-> "-", b |-> FALSE, n |-> 0, l |-> << >>]
RetNone == [kind |-> "None", b |-> FALSE, n |-> 0, l |-> << >>]
RetBool(b) == [kind |-> "bool", b |-> b, n |-> 0, l |-> << >>]
RetInt(n) == [kind |-> "int", b |-> FALSE, n |-> n, l |-> << >>]
RetList(l) == [kind |-> "list", b |-> FALSE, n |-> 0, l |-> l]
RetSelf == [kind |-> "self", b |-> FALSE, n |-> 0, l |-> << >>]
RetNew == [kind |-> "new", b |-> FALSE, n |-> 0, l |-> << >>]

\* The heap before any object is made: every name is bound to an empty Set.
Heap0 ==
    [obj |-> [o \in Cells |-> [cls |-> "Set", items |-> o, map |-> o]],
     lists |-> [a \in Cells |-> << >>],
     dicts |-> [a \in Cells |-> EmptyDict],
     exc |-> "none"]

\* The history: nothing is recorded unless it is switched on at the start.
NoLog == [on |-> FALSE, ops |-> << >>]
EmptyLog == [on |-> TRUE, ops |-> << >>]
Logged(l, c) ==
    IF l.on /\ c.self = "A" /\ c.op \in {"add", "remove"}
    THEN [l EXCEPT !.ops = Append(@, << c.op, c.item >>)]
    ELSE l

\* A call ends: h is the heap it leaves, r what it returns unless it raised.
Done(h, c, r) ==
    /\ pc = "ready"
    /\ Len(log.ops) < MaxLog
    /\ log' = Logged(log, c)
    /\ st' = h
    /\ pc' = "returned"
    /\ call' = c
    /\ pre' = st
    /\ ret' = IF h.exc = "none" THEN r ELSE NoRet

\* A call that binds its result to d ends.
DoneNew(h, d, c) == Done(Bind(h, d), c, RetNew)

----------------------------------------------------------------------------
\* Operator forms (lines 170-196).
__or__(h, self, other) == union(h, self, other)
__and__(h, self, other) == intersection(h, self, other)
__add__(h, self, other) == union(h, self, other)
__sub__(h, self, other) == difference(h, self, other)
__ior__(h, self, other) == union_update(h, self, other)
__iand__(h, self, other) == intersection_update(h, self, other)
__iadd__(h, self, other) == union_update(h, self, other)
__isub__(h, self, other) == difference_update(h, self, other)

----------------------------------------------------------------------------
\* The calls.  o is the receiver, d the name the caller binds a new object to.

\* d = cls(items)
Construct(d, cls, items) ==
    DoneNew(__init__(st, cls, items), d, Called("Set", "-", items, d, 0, NoKey))

Add(o, x) ==
    Done(add(st, o, x), Called("add", o, NoneArg, "-", x, NoKey), RetNone)

Remove(o, x) ==
    Done(remove(st, o, x), Called("remove", o, NoneArg, "-", x, NoKey), RetNone)

Discard(o, x) ==
    Done(discard(st, o, x), Called("discard", o, NoneArg, "-", x, NoKey), RetNone)

Clear(o) ==
    Done(clear(st, o), Called("clear", o, NoneArg, "-", 0, NoKey), RetNone)

Update(o, other) ==
    Done(update(st, o, other), Called("update", o, other, "-", 0, NoKey), RetNone)

UnionUpdate(o, other) ==
    Done(union_update(st, o, other),
         Called("union_update", o, other, "-", 0, NoKey), RetNone)

IntersectionUpdate(o, other) ==
    Done(intersection_update(st, o, other),
         Called("intersection_update", o, other, "-", 0, NoKey), RetNone)

DifferenceUpdate(o, other) ==
    Done(difference_update(st, o, other),
         Called("difference_update", o, other, "-", 0, NoKey), RetNone)

\* o |= other
IOr(o, other) ==
    Done(__ior__(st, o, other), Called("__ior__", o, other, "-", 0, NoKey), RetSelf)

\* o &= other
IAnd(o, other) ==
    Done(__iand__(st, o, other), Called("__iand__", o, other, "-", 0, NoKey), RetSelf)

\* o += other
IAdd(o, other) ==
    Done(__iadd__(st, o, other), Called("__iadd__", o, other, "-", 0, NoKey), RetSelf)

\* o -= other
ISub(o, other) ==
    Done(__isub__(st, o, other), Called("__isub__", o, other, "-", 0, NoKey), RetSelf)

\* del o[key]
DelItem(o, key) ==
    Done(__delitem__(st, o, key), Called("__delitem__", o, NoneArg, "-", 0, key), RetNone)

\* o[key]
GetItem(o, key) ==
    LET got == __getitem__(st, o, key)
    IN  Done(Raise(st, got.exc), Called("__getitem__", o, NoneArg, "-", 0, key),
             IF key.isint THEN RetInt(got.item) ELSE RetList(got.list))

\* x in o
Contains(o, x) ==
    Done(st, Called("__contains__", o, NoneArg, "-", x, NoKey), RetBool(contains(st, o, x)))

\* len(o)
Length(o) ==
    Done(st, Called("__len__", o, NoneArg, "-", 0, NoKey), RetInt(__len__(st, o)))

\* o == other
Eq(o, other) ==
    Done(st, Called("__eq__", o, other, "-", 0, NoKey), RetBool(__eq__(st, o, other)))

\* o != other
Ne(o, other) ==
    Done(st, Called("__ne__", o, other, "-", 0, NoKey), RetBool(__ne__(st, o, other)))

IsSubset(o, other) ==
    LET got == issubset(st, o, other)
    IN  Done(Raise(st, got.exc), Called("issubset", o, other, "-", 0, NoKey), RetBool(got.b))

IsSuperset(o, other) ==
    LET got == issuperset(st, o, other)
    IN  Done(Raise(st, got.exc), Called("issuperset", o, other, "-", 0, NoKey), RetBool(got.b))

\* d = o.copy()
Copy(o, d) ==
    DoneNew(copy(st, o), d, Called("copy", o, NoneArg, d, 0, NoKey))

\* d = o.union(other)
Union(o, other, d) ==
    DoneNew(union(st, o, other), d, Called("union", o, other, d, 0, NoKey))

\* d = o.intersection(other)
Intersection(o, other, d) ==
    DoneNew(intersection(st, o, other), d, Called("intersection", o, other, d, 0, NoKey))

\* d = o.difference(other)
Difference(o, other, d) ==
    DoneNew(difference(st, o, other), d, Called("difference", o, other, d, 0, NoKey))

\* d = o | other
Or(o, other, d) ==
    DoneNew(__or__(st, o, other), d, Called("__or__", o, other, d, 0, NoKey))

\* d = o & other
And(o, other, d) ==
    DoneNew(__and__(st, o, other), d, Called("__and__", o, other, d, 0, NoKey))

\* d = o + other
Plus(o, other, d) ==
    DoneNew(__add__(st, o, other), d, Called("__add__", o, other, d, 0, NoKey))

\* d = o - other
Minus(o, other, d) ==
    DoneNew(__sub__(st, o, other), d, Called("__sub__", o, other, d, 0, NoKey))

\* The caller takes what the call returned, or handles what it raised, and
\* goes on to its next call.
Return ==
    /\ pc = "returned"
    /\ pc' = "ready"
    /\ st' = Raise(st, "none")
    /\ call' = NoCall
    /\ pre' = Raise(st, "none")
    /\ ret' = NoRet
    /\ UNCHANGED log

----------------------------------------------------------------------------
\* The state after construction: A = Set(ia), B = Set(ib).
Init ==
    \E ia, ib \in Iterables :
        /\ st = Bind(__init__(Bind(__init__(Heap0, "Set", Lst(ia)), "A"), "Set", Lst(ib)), "B")
        /\ pc = "ready"
        /\ call = NoCall
        /\ pre = st
        /\ ret = NoRet
        /\ log = NoLog

IntKeys == {IntKey(i) : i \in Indices}
PlainKeys == {SliceKey(sl) : sl \in {s \in Slices : s.step = None}}
SliceKeys == {SliceKey(sl) : sl \in Slices}
AnyArgs == SetArgs \cup NonSetArgs

\* Sequences of mutating calls on two sets.
Next ==
    \/ \E o \in Objs, x \in Values : Add(o, x)
    \/ \E o \in Objs, x \in Values : Remove(o, x)
    \/ \E o \in Objs, x \in Values : Discard(o, x)
    \/ \E o \in Objs : Clear(o)
    \/ \E o \in Objs, other \in SetArgs \cup ListArgs : Update(o, other)
    \/ \E o \in Objs, other \in AnyArgs : UnionUpdate(o, other)
    \/ \E o \in Objs, other \in AnyArgs : IntersectionUpdate(o, other)
    \/ \E o \in Objs, other \in AnyArgs : DifferenceUpdate(o, other)
    \/ \E o \in Objs, other \in AnyArgs : IOr(o, other)
    \/ \E o \in Objs, other \in AnyArgs : IAnd(o, other)
    \/ \E o \in Objs, other \in AnyArgs : IAdd(o, other)
    \/ \E o \in Objs, other \in AnyArgs : ISub(o, other)
    \/ \E o \in Objs, key \in IntKeys \cup PlainKeys : DelItem(o, key)
    \/ Return

Spec == Init /\ [][Next]_vars

\* Set algebra, comparisons and failing calls on two sets.
NextAlgebra ==
    \/ \E o \in Objs, x \in Values : Add(o, x)
    \/ \E o \in Objs, other \in AnyArgs : UnionUpdate(o, other)
    \/ \E o \in Objs, other \in AnyArgs : IntersectionUpdate(o, other)
    \/ \E o \in Objs, other \in AnyArgs : DifferenceUpdate(o, other)
    \/ \E o, d \in Objs, other \in AnyArgs : Union(o, other, d)
    \/ \E o, d \in Objs, other \in AnyArgs : Intersection(o, other, d)
    \/ \E o, d \in Objs, other \in AnyArgs : Difference(o, other, d)
    \/ \E o, d \in Objs, other \in AnyArgs : Or(o, other, d)
    \/ \E o, d \in Objs, other \in AnyArgs : And(o, other, d)
    \/ \E o, d \in Objs, other \in AnyArgs : Plus(o, other, d)
    \/ \E o, d \in Objs, other \in AnyArgs : Minus(o, other, d)
    \/ \E o \in Objs, other \in SetArgs : Eq(o, other)
    \/ \E o \in Objs, other \in SetArgs : Ne(o, other)
    \/ \E o \in Objs, other \in AnyArgs : IsSubset(o, other)
    \/ \E o \in Objs, other \in AnyArgs : IsSuperset(o, other)
    \/ \E o \in Objs, d \in Objs : Copy(o, d)
    \/ \E o \in Objs, x \in Values : Contains(o, x)
    \/ \E o \in Objs : Length(o)
    \/ \E o \in Objs, key \in IntKeys : GetItem(o, key)
    \/ \E o \in Objs, key \in IntKeys : DelItem(o, key)
    \/ Return

SpecAlgebra == Init /\ [][NextAlgebra]_vars

\* The state after A = Set(ia); B = A.copy().
InitClone ==
    \E ia \in Iterables :
        /\ st = Bind(copy(Bind(__init__(Heap0, "Set", Lst(ia)), "A"), "A"), "B")
        /\ pc = "ready"
        /\ call = NoCall
        /\ pre = st
        /\ ret = NoRet
        /\ log = NoLog

\* Mutating calls on a set and its copy; a name may be bound to a new copy
\* of the other.
NextClone ==
    \/ \E o \in Objs, x \in Values : Add(o, x)
    \/ \E o \in Objs, x \in Values : Remove(o, x)
    \/ \E o \in Objs : Clear(o)
    \/ \E o \in Objs, key \in IntKeys \cup PlainKeys : DelItem(o, key)
    \/ \E o \in Objs, other \in SetArgs : Update(o, other)
    \/ \E o \in Objs, other \in SetArgs : UnionUpdate(o, other)
    \/ \E o \in Objs, other \in SetArgs : IntersectionUpdate(o, other)
    \/ \E o \in Objs, other \in SetArgs : DifferenceUpdate(o, other)
    \/ \E o \in Objs : \E d \in Objs \ {o} : Copy(o, d)
    \/ Return

SpecClone == InitClone /\ [][NextClone]_vars

\* The state after A = Set(ia); B = Set().
InitIndex ==
    \E ia \in Iterables :
        /\ st = Bind(__init__(Bind(__init__(Heap0, "Set", Lst(ia)), "A"), "Set", NoneArg), "B")
        /\ pc = "ready"
        /\ call = NoCall
        /\ pre = st
        /\ ret = NoRet
        /\ log = NoLog

\* Subscripting one set.
NextIndex ==
    \/ \E x \in Values : Add("A", x)
    \/ \E key \in IntKeys \cup SliceKeys : GetItem("A", key)
    \/ \E key \in IntKeys \cup SliceKeys : DelItem("A", key)
    \/ Return

SpecIndex == InitIndex /\ [][NextIndex]_vars

----------------------------------------------------------------------------
\* Construction from an iterable.  The inputs are one longer than those of the
\* other specifications, so that a value can recur after another value.

LongIterables == UNION {[1 .. n -> Values] : n \in 0 .. (MaxIter + 1)}

InitConstruct == InitIndex

NextConstruct ==
    \/ \E s \in LongIterables : Construct("A", "Set", Lst(s))
    \/ \E other \in SetArgs \cup {NoneArg} : Construct("A", "Set", other)
    \/ Return

SpecConstruct == InitConstruct /\ [][NextConstruct]_vars

----------------------------------------------------------------------------
\* Sets of the base class and of a subclass that adds nothing to it.

\* The state after A = ca(ia); B = cb(ib).
InitClasses ==
    \E ca, cb \in Classes : \E ia, ib \in Iterables :
        /\ st = Bind(__init__(Bind(__init__(Heap0, ca, Lst(ia)), "A"), cb, Lst(ib)), "B")
        /\ pc = "ready"
        /\ call = NoCall
        /\ pre = st
        /\ ret = NoRet
        /\ log = NoLog

NextClasses ==
    \/ \E o \in Objs, d \in Objs : Copy(o, d)
    \/ \E o \in Objs, other \in SetArgs, d \in Objs : Union(o, other, d)
    \/ \E o \in Objs, other \in SetArgs, d \in Objs : Intersection(o, other, d)
    \/ \E o \in Objs, other \in SetArgs, d \in Objs : Difference(o, other, d)
    \/ Return

SpecClasses == InitClasses /\ [][NextClasses]_vars

----------------------------------------------------------------------------
\* A history of add and remove calls on a set that starts empty.

\* The state after A = Set(); B = Set().
InitHistory ==
    /\ st = Bind(__init__(Bind(__init__(Heap0, "Set", NoneArg), "A"), "Set", NoneArg), "B")
    /\ pc = "ready"
    /\ call = NoCall
    /\ pre = st
    /\ ret = NoRet
    /\ log = EmptyLog

NextHistory ==
    \/ \E x \in Values : Add("A", x)
    \/ \E x \in Values : Remove("A", x)
    \/ Return

SpecHistory == InitHistory /\ [][NextHistory]_vars

----------------------------------------------------------------------------
\* The claims.

Returned(ops) == pc = "returned" /\ call.op \in ops

\* items and map of the object bound to o agree: map's keys are the values in
\* items, map gives each value its position, and no value is held twice.
Consistent(h, o) ==
    LET s == Items(h, o)
        m == Map(h, o)
    IN  /\ DOMAIN m = RangeOf(s)
        /\ \A i \in 0 .. (Len(s) - 1) : m[s[i + 1]] = i
        /\ \A i, j \in 1 .. Len(s) : i # j => s[i] # s[j]

\* C1: after any sequence of mutating calls (construction, add, remove,
\* discard, clear, del by index or range, update, the _update methods and the
\* in-place operators) the map and the items of every set agree exactly.
C1_MapAgreesWithItems == \A o \in Objs : Consistent(st, o)

\* A range deletion has removed the first two of three items and the
\* survivor, once at position 2, is recorded at position 0.
C1_Witness ==
    /\ Returned({"__delitem__"})
    /\ ~call.key.isint
    /\ Len(Items(pre, call.self)) = 3
    /\ Items(st, call.self) = << Items(pre, call.self)[3] >>
    /\ Map(st, call.self)[Items(pre, call.self)[3]] = 0

\* C3: remove(x) of the item x at position i deletes position i: the items
\* before i keep their positions, the items after i move down by exactly one
\* (in items and in map), and the survivors keep their order.
C3_RemoveShiftsTail ==
    Returned({"remove"}) =>
        LET s0 == Items(pre, call.self)
            s1 == Items(st, call.self)
            m1 == Map(st, call.self)
        IN  \A i \in 0 .. (Len(s0) - 1) :
                s0[i + 1] = call.item =>
                    /\ Len(s1) = Len(s0) - 1
                    /\ \A j \in 0 .. (i - 1) : s1[j + 1] = s0[j + 1] /\ m1[s0[j + 1]] = j
                    /\ \A j \in (i + 1) .. (Len(s0) - 1) :
                           s1[j] = s0[j + 1] /\ m1[s0[j + 1]] = j - 1

\* The middle one of three items has been removed.
C3_Witness ==
    /\ Returned({"remove"})
    /\ Len(Items(pre, call.self)) = 3
    /\ Items(pre, call.self)[2] = call.item
    /\ Len(Items(st, call.self)) = 2

\* C4: remove(x) and discard(x) on a set that does not hold x raise nothing
\* and leave items and map as they were.
C4_AbsentRemoveIsNoOp ==
    (Returned({"remove", "discard"}) /\ call.item \notin RangeOf(Items(pre, call.self))) =>
        /\ st.exc = "none"
        /\ ret = RetNone
        /\ \A o \in Objs : View(st, o) = View(pre, o)

\* discard of an absent value has returned on a set holding two others.
C4_Witness ==
    /\ Returned({"discard"})
    /\ call.item \notin RangeOf(Items(pre, call.self))
    /\ Len(Items(pre, call.self)) = 2
    /\ st.exc = "none"

\* The values a set holds.
Held(h, o) == RangeOf(Items(h, o))

\* C2: union holds exactly the values in A or in B, with no duplicates;
\* intersection exactly the values in both; difference exactly the values in
\* A and not in B.
C2_AlgebraMembership ==
    (Returned({"union", "intersection", "difference"}) /\ call.other.kind = "Set") =>
        LET a == Held(pre, call.self)
            b == Held(pre, call.other.ref)
            r == Items(st, call.dest)
        IN  /\ st.exc = "none"
            /\ Cardinality(RangeOf(r)) = Len(r)
            /\ DOMAIN Map(st, call.dest) = RangeOf(r)
            /\ call.op = "union" => RangeOf(r) = a \cup b
            /\ call.op = "intersection" => RangeOf(r) = a \cap b
            /\ call.op = "difference" => RangeOf(r) = a \ b

\* An intersection has kept one of the receiver's three items.
C2_Witness ==
    /\ Returned({"intersection"})
    /\ call.other.kind = "Set"
    /\ Len(Items(pre, call.self)) = 3
    /\ Len(Items(st, call.dest)) = 1
    /\ st.exc = "none"

\* C5: A.union_update(A) and A.intersection_update(A) leave A as it was;
\* A.difference_update(A) leaves A empty, items and map.
C5_SelfOperations ==
    (pc = "returned" /\ call.other = Ref(call.self)) =>
        /\ call.op \in {"union_update", "intersection_update"} =>
               st.exc = "none" /\ View(st, call.self) = View(pre, call.self)
        /\ call.op = "difference_update" =>
               /\ st.exc = "none"
               /\ Items(st, call.self) = << >>
               /\ Map(st, call.self) = EmptyDict

\* A.difference_update(A) has emptied a set of three.
C5_Witness ==
    /\ Returned({"difference_update"})
    /\ call.other = Ref(call.self)
    /\ Len(Items(pre, call.self)) = 3
    /\ Items(st, call.self) = << >>

\* The heap the in-place sibling of the copy-producing call leaves.
InPlace(h, op, self, other) ==
    CASE op = "union" -> union_update(h, self, other)
      [] op = "intersection" -> intersection_update(h, self, other)
      [] op = "difference" -> difference_update(h, self, other)

\* C7: for sets A and B, B the same instance as A included, the set that
\* A.union(B), A.intersection(B) or A.difference(B) returns has the items and
\* the map A itself has after the _update method of the same name.
C7_CopyMatchesInPlace ==
    (Returned({"union", "intersection", "difference"}) /\ call.other.kind = "Set") =>
        LET u == InPlace(pre, call.op, call.self, call.other)
        IN  /\ st.exc = "none"
            /\ u.exc = "none"
            /\ Items(st, call.dest) = Items(u, call.self)
            /\ Map(st, call.dest) = Map(u, call.self)

\* A.difference(A) has returned the empty set for a set of two or more.
C7_Witness ==
    /\ Returned({"difference"})
    /\ call.other = Ref(call.self)
    /\ call.dest # call.self
    /\ Len(Items(pre, call.self)) >= 2
    /\ Items(st, call.dest) = << >>

TypeChecked ==
    {"union_update", "intersection_update", "difference_update",
     "union", "intersection", "difference", "issubset", "issuperset"}

\* C8: a set-algebra call whose other is no Set reports an error, and a call
\* that fails (on the type of other, or a get or del on its index) leaves
\* every set as it was.
C8_FailuresAreAtomic ==
    pc = "returned" =>
        /\ (call.op \in TypeChecked /\ call.other.kind # "Set") => st.exc = "ValueError"
        /\ st.exc # "none" => \A o \in Objs : View(st, o) = View(pre, o)

\* union_update with a list has failed on a set that holds something.
C8_Witness ==
    /\ Returned({"union_update"})
    /\ call.other.kind = "list"
    /\ st.exc = "ValueError"
    /\ Len(Items(pre, call.self)) >= 1

\* C10: == is true exactly when the two sets have the same cardinality and
\* each is a subset of the other, that is when they hold the same values in
\* whatever order; != is the negation.
C10_Equality ==
    Returned({"__eq__", "__ne__"}) =>
        LET a == Items(pre, call.self)
            b == Items(pre, call.other.ref)
            same == RangeOf(a) = RangeOf(b)
            mutual == /\ Len(a) = Len(b)
                      /\ RangeOf(a) \subseteq RangeOf(b)
                      /\ RangeOf(b) \subseteq RangeOf(a)
        IN  /\ st.exc = "none"
            /\ same = mutual
            /\ call.op = "__eq__" => ret = RetBool(same)
            /\ call.op = "__ne__" => ret = RetBool(~same)

\* Two sets of three that list their items in different orders compared equal.
C10_Witness ==
    /\ Returned({"__eq__"})
    /\ ret = RetBool(TRUE)
    /\ Len(Items(pre, call.self)) = 3
    /\ Items(pre, call.self) # Items(pre, call.other.ref)

\* C6: once B = A.copy(), no mutating call on one of the two changes the
\* items or the map of the other.
C6_CloneIndependence ==
    (pc = "returned" /\ call.op # "copy") =>
        \A q \in Objs \ {call.self} :
            Items(st, q) = Items(pre, q) /\ Map(st, q) = Map(pre, q)

\* add has changed a copy that was still equal to its original.
C6_Witness ==
    /\ Returned({"add"})
    /\ call.self = "B"
    /\ View(pre, "A") = View(pre, "B")
    /\ Len(Items(pre, "A")) >= 1
    /\ Items(st, "B") # Items(pre, "B")
    /\ Items(st, "A") = Items(pre, "A")

\* C9 as claimed: every int below 0 or at or above len, and every range that
\* reaches outside [0, len), fails with IndexError.
C9_OutsideAlwaysFails ==
    Returned({"__getitem__", "__delitem__"}) =>
        LET n == Len(Items(pre, call.self))
            k == call.key
            outside(v) == v # None /\ (v[1] < 0 \/ v[1] > n)
        IN  /\ (k.isint /\ (k.i < 0 \/ k.i >= n)) => st.exc = "IndexError"
            /\ (~k.isint /\ (outside(k.sl.start) \/ outside(k.sl.stop))) => st.exc = "IndexError"

\* C9: get and del with an int i fail with IndexError exactly when i >= len
\* or i < -len; an int in [-len, -1] names position len + i and succeeds; a
\* range never fails with IndexError, and fails (ValueError) only on step 0.
C9_IndexErrors ==
    Returned({"__getitem__", "__delitem__"}) =>
        LET s0 == Items(pre, call.self)
            n == Len(s0)
            k == call.key
        IN  /\ k.isint => ((st.exc = "IndexError") <=> (k.i >= n \/ k.i < 0 - n))
            /\ k.isint => st.exc \in {"none", "IndexError"}
            /\ (k.isint /\ 0 - n <= k.i /\ k.i < 0 /\ call.op = "__getitem__") =>
                   ret = RetInt(s0[n + k.i + 1])
            /\ (k.isint /\ 0 - n <= k.i /\ k.i < 0 /\ call.op = "__delitem__") =>
                   Items(st, call.self) = DelAt(s0, n + k.i)
            /\ ~k.isint => ((st.exc = "ValueError") <=> (k.sl.step = Some(0)))
            /\ ~k.isint => st.exc \in {"none", "ValueError"}

\* del with an int below -len has failed on a set that holds something.
C9_Witness ==
    /\ Returned({"__delitem__"})
    /\ call.key.isint
    /\ Len(Items(pre, call.self)) >= 1
    /\ call.key.i < 0 - Len(Items(pre, call.self))
    /\ st.exc = "IndexError"

\* s without the values in gone, in the order of s.
Without(s, gone) == LET keep(x) == x \notin gone IN SelectSeq(s, keep)

\* C11: del with a range (stepped ranges included) removes exactly the items
\* that were at the selected positions when the call began, and the others
\* keep their order.
C11_RangeDeletion ==
    (Returned({"__delitem__"}) /\ ~call.key.isint /\ st.exc = "none") =>
        LET s0 == Items(pre, call.self)
            pos == SlicePositions(call.key.sl, Len(s0))
            gone == {s0[p + 1] : p \in RangeOf(pos)}
        IN  /\ RangeOf(pos) \subseteq 0 .. (Len(s0) - 1)
            /\ Len(Items(st, call.self)) = Len(s0) - Cardinality(RangeOf(pos))
            /\ Items(st, call.self) = Without(s0, gone)
            /\ Consistent(st, call.self)

\* del A[::2] has removed the first and the third of three items.
C11_Witness ==
    /\ Returned({"__delitem__"})
    /\ ~call.key.isint
    /\ call.key.sl = [start |-> None, stop |-> None, step |-> Some(2)]
    /\ Len(Items(pre, call.self)) = 3
    /\ Items(st, call.self) = << Items(pre, call.self)[2] >>

\* C12: add(x) on a set without x appends x at position len(items) and
\* records that position, changing nothing else; add(x) on a set with x
\* changes nothing, so a second add(x) leaves what the first left.
C12_AddAppendsOnce ==
    Returned({"add"}) =>
        LET s0 == Items(pre, call.self)
            m0 == Map(pre, call.self)
            x == call.item
        IN  /\ st.exc = "none"
            /\ \A o \in Objs \ {call.self} : View(st, o) = View(pre, o)
            /\ x \notin RangeOf(s0) =>
                   /\ Items(st, call.self) = Append(s0, x)
                   /\ DOMAIN Map(st, call.self) = DOMAIN m0 \cup {x}
                   /\ Map(st, call.self)[x] = Len(s0)
                   /\ \A k \in DOMAIN m0 : Map(st, call.self)[k] = m0[k]
            /\ x \in RangeOf(s0) => View(st, call.self) = View(pre, call.self)
            /\ View(add(st, call.self, x), call.self) = View(st, call.self)

\* add has appended a third item to a set of two.
C12_Witness ==
    /\ Returned({"add"})
    /\ Len(Items(pre, call.self)) = 2
    /\ call.item \notin RangeOf(Items(pre, call.self))
    /\ Items(st, call.self)[3] = call.item

\* C14: A.issubset(B) is true exactly when every item of A is in B,
\* A.issuperset(B) exactly when every item of B is in A, and so
\* A.issubset(B) = B.issuperset(A), empty sets and A being B included.
C14_SubsetSuperset ==
    (Returned({"issubset", "issuperset"}) /\ call.other.kind = "Set") =>
        LET a == call.self
            b == call.other.ref
        IN  /\ st.exc = "none"
            /\ call.op = "issubset" =>
                   /\ ret = RetBool(Held(pre, a) \subseteq Held(pre, b))
                   /\ ret.b = issuperset(pre, b, Ref(a)).b
            /\ call.op = "issuperset" =>
                   /\ ret = RetBool(Held(pre, b) \subseteq Held(pre, a))
                   /\ ret.b = issubset(pre, b, Ref(a)).b

\* A.issuperset(B) has returned False for a non-empty A that B strictly
\* contains.
C14_Witness ==
    /\ Returned({"issuperset"})
    /\ call.other.kind = "Set"
    /\ Held(pre, call.self) # {}
    /\ Held(pre, call.self) \subseteq Held(pre, call.other.ref)
    /\ Held(pre, call.self) # Held(pre, call.other.ref)
    /\ ret = RetBool(FALSE)

\* s restricted to the values in kept, in the order of s.
Only(s, kept) == LET keep(x) == x \in kept IN SelectSeq(s, keep)

\* The set a call of the algebra leaves its result in: self for the _update
\* methods, the caller's name for the methods that return a new set.
ResultOf(c) == IF c.dest = "-" THEN c.self ELSE c.dest

\* C16: union and union_update give A's items in A's order, then B's items not
\* in A in B's order; intersection and difference, and their _update forms,
\* give the items of A that qualify, in A's order.
C16_ResultOrder ==
    (/\ Returned({"union", "intersection", "difference",
                  "union_update", "intersection_update", "difference_update"})
     /\ call.other.kind = "Set") =>
        LET a == Items(pre, call.self)
            b == Items(pre, call.other.ref)
            r == Items(st, ResultOf(call))
        IN  /\ st.exc = "none"
            /\ call.op \in {"union", "union_update"} =>
                   r = a \o Without(b, RangeOf(a))
            /\ call.op \in {"intersection", "intersection_update"} =>
                   r = Only(a, RangeOf(b))
            /\ call.op \in {"difference", "difference_update"} =>
                   r = Without(a, RangeOf(b))

\* intersection_update has kept two items of A that B lists in the other
\* order, and dropped one.
C16_Witness ==
    /\ Returned({"intersection_update"})
    /\ call.other.kind = "Set"
    /\ Len(Items(pre, call.self)) = 3
    /\ Len(Items(st, call.self)) = 2
    /\ Only(Items(pre, call.other.ref), Held(pre, call.self)) # Items(st, call.self)

\* The position of the first occurrence of x in s.
FirstAt(s, x) == CHOOSE i \in 1 .. Len(s) : s[i] = x /\ \A j \in 1 .. (i - 1) : s[j] # x

\* The values an argument of the constructor yields, in order.
Yielded(h, items) ==
    IF items.kind = "Set" THEN Items(h, items.ref)
    ELSE IF items.kind = "None" THEN << >>
    ELSE items.val

\* C13: Set(input) holds each distinct value of the input once, in the order of
\* first occurrence, and has the items and the map of an empty set to which
\* each value of the input was added in order.
C13_Construction ==
    Returned({"Set"}) =>
        LET s == Yielded(pre, call.other)
            r == Items(st, call.dest)
            empty == Bind(__init__(pre, "Set", NoneArg), call.dest)
        IN  /\ st.exc = "none"
            /\ RangeOf(r) = RangeOf(s)
            /\ Cardinality(RangeOf(r)) = Len(r)
            /\ \A i, j \in 1 .. Len(r) : i < j => FirstAt(s, r[i]) < FirstAt(s, r[j])
            /\ View(st, call.dest) = View(add_each(empty, call.dest, s, 0), call.dest)
            /\ Consistent(st, call.dest)

\* Set([x, y, x]) has built the items [x, y].
C13_Witness ==
    /\ Returned({"Set"})
    /\ call.other.kind = "list"
    /\ Len(call.other.val) = 3
    /\ call.other.val[1] = call.other.val[3]
    /\ call.other.val[1] # call.other.val[2]
    /\ Items(st, call.dest) = << call.other.val[1], call.other.val[2] >>

\* C15: the set that copy, union, intersection or difference returns has the
\* class of the receiver, whatever the class of the argument.
C15_ResultClass ==
    Returned({"copy", "union", "intersection", "difference"}) =>
        /\ st.exc = "none"
        /\ st.obj[call.dest].cls = pre.obj[call.self].cls

\* union of a subclass receiver with a base-class argument has returned a
\* set of the subclass.
C15_Witness ==
    /\ Returned({"union"})
    /\ call.other.ref # call.self
    /\ pre.obj[call.self].cls = "SubSet"
    /\ pre.obj[call.other.ref].cls = "Set"
    /\ st.obj[call.dest].cls = "SubSet"

\* The heap a method that returns a new set leaves, the new set still bound
\* to Tmp.
Produce(h, op, self, other) ==
    CASE op = "copy" -> copy(h, self)
      [] op = "union" -> union(h, self, other)
      [] op = "intersection" -> intersection(h, self, other)
      [] op = "difference" -> difference(h, self, other)

\* C17: the _update methods leave other as it was when other is another
\* instance; union, intersection, difference and copy leave self and other as
\* they were; issubset, issuperset, ==, !=, in, len and [] leave every set
\* as it was.
C17_Frame ==
    /\ (/\ Returned({"union_update", "intersection_update", "difference_update"})
        /\ call.other.kind = "Set"
        /\ call.other.ref # call.self) =>
           View(st, call.other.ref) = View(pre, call.other.ref)
    /\ Returned({"copy", "union", "intersection", "difference"}) =>
           /\ \A o \in Objs :
                  View(Produce(pre, call.op, call.self, call.other), o) = View(pre, o)
           /\ \A o \in Objs \ {call.dest} : View(st, o) = View(pre, o)
    /\ Returned({"issubset", "issuperset", "__eq__", "__ne__",
                 "__contains__", "__len__", "__getitem__"}) =>
           \A o \in Objs : View(st, o) = View(pre, o)

\* B = A.union(B) has returned a set larger than A, and A is as it was.
C17_Witness ==
    /\ Returned({"union"})
    /\ call.other.kind = "Set"
    /\ call.other.ref # call.self
    /\ call.dest # call.self
    /\ Len(Items(st, call.dest)) > Len(Items(pre, call.self))
    /\ View(st, call.self) = View(pre, call.self)

\* Two sets with the items and maps x and y, each bound to a name of its own.
Holding(x, y) ==
    SetMap(SetItems(SetMap(SetItems(Heap0, "A", x.items), "A", x.map), "B", y.items), "B", y.map)

\* x == y, by Set.__eq__.
SetEq(x, y) == __eq__(Holding(x, y), "A", Ref("B"))

\* C19: by the set's own ==, A.union(B) == B.union(A) and
\* A.intersection(B) == B.intersection(A); A.union(A) == A,
\* A.intersection(A) == A, and A.difference(A) is empty.
C19_AlgebraLaws ==
    (Returned({"union", "intersection", "difference"}) /\ call.other.kind = "Set") =>
        LET r == View(st, call.dest)
            swapped == View(Produce(pre, call.op, call.other.ref, Ref(call.self)), Tmp)
        IN  /\ call.op \in {"union", "intersection"} =>
                   /\ SetEq(r, swapped)
                   /\ SetEq(swapped, r)
                   /\ call.other.ref = call.self =>
                          SetEq(r, View(pre, call.self)) /\ SetEq(View(pre, call.self), r)
            /\ (call.op = "difference" /\ call.other.ref = call.self) =>
                   r.items = << >> /\ r.map = EmptyDict

\* A.union(B) has returned items in another order than B.union(A) gives, the
\* two each having an item the other set lacks.
C19_Witness ==
    /\ Returned({"union"})
    /\ call.other.kind = "Set"
    /\ call.other.ref # call.self
    /\ Held(pre, call.self) \ Held(pre, call.other.ref) # {}
    /\ Held(pre, call.other.ref) \ Held(pre, call.self) # {}
    /\ Items(st, call.dest) # Items(union(pre, call.other.ref, Ref(call.self)), Tmp)
    /\ SetEq(View(st, call.dest), View(union(pre, call.other.ref, Ref(call.self)), Tmp))

\* The calls of the history that name x, by position.
CallsOn(x) == {i \in 1 .. Len(log.ops) : log.ops[i][2] = x}

\* The last call of the history that names x, 0 when there is none.
LastOn(x) == IF CallsOn(x) = {} THEN 0 ELSE CHOOSE i \in CallsOn(x) : \A j \in CallsOn(x) : j <= i

\* The last remove(x) of the history, 0 when there is none.
LastRemove(x) ==
    LET rm == {i \in CallsOn(x) : log.ops[i][1] = "remove"}
    IN  IF rm = {} THEN 0 ELSE CHOOSE i \in rm : \A j \in rm : j <= i

\* The add(x) that put x into the set for the last time: the first add(x)
\* since the last remove(x).
InsertedAt(x) ==
    LET ad == {i \in CallsOn(x) : i > LastRemove(x)}
    IN  CHOOSE i \in ad : \A j \in ad : i <= j

\* C18: after any sequence of add and remove calls, x is in the set exactly
\* when the last add(x) or remove(x) was an add, and items lists the members
\* in the order in which they were last put in.
C18_History ==
    log.on =>
        LET s == Items(st, "A")
        IN  /\ Held(st, "A") = {x \in Values : LastOn(x) > 0 /\ log.ops[LastOn(x)][1] = "add"}
            /\ Cardinality(Held(st, "A")) = Len(s)
            /\ \A i, j \in 1 .. Len(s) : i < j => InsertedAt(s[i]) < InsertedAt(s[j])

\* add(x), add(y), remove(x), add(x) have been called, and x is now last.
C18_Witness ==
    /\ pc = "returned"
    /\ Len(log.ops) = 4
    /\ \E x, y \in Values :
           /\ x # y
           /\ log.ops = << << "add", x >>, << "add", y >>, << "remove", x >>, << "add", x >> >>
           /\ Items(st, "A") = << y, x >>

====
